---- MODULE Spec2Model ----
(***************************************************************************)
(* Model of the collation core of go.text/collate (collate.go): the        *)
(* element iterator with its canonical reordering, the level walkers, the  *)
(* comparator, variable processing and the sort-key encoder.               *)
(*                                                                         *)
(* Indices are 0-based as in the Go source; At(s, k) reads s[k].           *)
(***************************************************************************)
EXTENDS Integers, Sequences, FiniteSets, TLC

\* ------------------------------------------------------------------ bounds
\* Longest input of the pair specification (SpecPair).
MaxLen == 2
\* Longest input of the normalisation specification (SpecNorm).
MaxLenNorm == 3
\* Longest input of the triple specification (SpecTriple).
MaxLenTriple == 1
\* Number of calls made on one collator in Spec.
MaxCalls == 3
MaxLenWindow == 3
MaxLenSteps == 3
MaxDelta == 2
MaxRun == 40
MaxLenTail == 3
MaxEntries == 2

\* ------------------------------------------------------- colltab levels
Primary == 0
Secondary == 1
Tertiary == 2
Quaternary == 3
Identity == 4
Levels == {Primary, Secondary, Tertiary, Quaternary, Identity}

\* --------------------------------------------------- AlternateHandling
AltNonIgnorable == 0
AltBlanked == 1
AltShifted == 2
AltShiftTrimmed == 3
Alternates == {AltNonIgnorable, AltBlanked, AltShifted, AltShiftTrimmed}

\* -------------------------------------------------------------- Option
OptNumeric == 1
OptIgnoreCase == 2
OptIgnoreDiacritics == 4
OptIgnoreWidth == 8
OptUpperFirst == 16
OptLowerFirst == 32
OptForce == 64
OptLoose == OptIgnoreDiacritics + OptIgnoreWidth + OptIgnoreCase
\* The option sets handed to SetOptions.
Options == {OptNumeric, OptIgnoreDiacritics, OptLoose, OptForce + OptUpperFirst}
\* o & flag != 0, for a flag that is a power of two.
HasOption(o, flag) == (o \div flag) % 2 = 1

\* ------------------------------------------------------------ helpers
At(s, k) == s[k + 1]
\* s[from:to] of Go.
Slice(s, from, to) == SubSeq(s, from + 1, to)
MinOf(S) == CHOOSE m \in S : \A n \in S : m <= n
Sign(n) == IF n < 0 THEN -1 ELSE IF n > 0 THEN 1 ELSE 0
Byte(n) == n % 256
\* b | 0x80 on a byte.
Or128(b) == IF b >= 128 THEN b ELSE b + 128

\* bytes.Compare, and the string comparison a < b / a > b of Go.
bytesCompare(a, b) ==
    LET n == IF Len(a) < Len(b) THEN Len(a) ELSE Len(b)
        D == {k \in 1..n : a[k] # b[k]}
    IN IF D = {}
       THEN Sign(Len(a) - Len(b))
       ELSE IF a[MinOf(D)] < b[MinOf(D)] THEN -1 ELSE 1

\* --------------------------------------------------- collation elements
\* colltab.Elem, by its accessors: four weights and a combining class.
MaxQuaternary == 2097151
Elem(p, s, t, ccc) ==
    [primary |-> p, secondary |-> s, tertiary |-> t,
     quaternary |-> MaxQuaternary, ccc |-> ccc]
\* colltab.Ignore: every weight is zero.
Ignore == [primary |-> 0, secondary |-> 0, tertiary |-> 0, quaternary |-> 0, ccc |-> 0]
\* colltab.MakeQuaternary: a quaternary-only element.
MakeQuaternary(v) ==
    [primary |-> 0, secondary |-> 0, tertiary |-> 0, quaternary |-> v, ccc |-> 0]
PrimaryOf(e) == e.primary
SecondaryOf(e) == e.secondary
TertiaryOf(e) == e.tertiary
QuaternaryOf(e) == e.quaternary
CCC(e) == e.ccc

\* ------------------------------------------------------------ Weigher
\* The input alphabet: one byte per rune.
rSpace == 1
rUpperA == 2
rLowerA == 3
rLowerB == 4
rAcute == 5
rBelow == 6
rAAcute == 7
Runes == {rSpace, rUpperA, rLowerA, rLowerB, rAcute, rBelow, rAAcute}
\* Two more marks, met only in the inputs that exercise the reordering.
rHook == 8
rCedilla == 9

\* Weigher.Top: the largest variable primary.
WeigherTop == 5

\* The table of the Weigher: the block of elements of each rune. The space
\* is a variable, the two marks are primary ignorables of combining class
\* 230 and 220, and the precomposed letter expands to a starter followed by
\* a mark. The primary of b needs the three-byte encoding.
WeigherTable(r) ==
    CASE r = rSpace  -> <<Elem(5, 32, 2, 0)>>
      [] r = rUpperA -> <<Elem(10, 32, 8, 0)>>
      [] r = rLowerA -> <<Elem(10, 32, 2, 0)>>
      [] r = rLowerB -> <<Elem(32769, 32, 2, 0)>>
      [] r = rAcute  -> <<Elem(0, 33, 2, 230)>>
      [] r = rBelow  -> <<Elem(0, 34, 2, 220)>>
      [] r = rAAcute -> <<Elem(10, 32, 2, 0), Elem(0, 33, 2, 230)>>
      [] r = rHook   -> <<Elem(0, 35, 2, 220), Elem(0, 37, 2, 220)>>
      [] r = rCedilla -> <<Elem(0, 36, 2, 202)>>

\* Weigher.AppendNext / AppendNextString: the elements of the first rune
\* are appended and one byte is consumed.
AppendNext(ce, input) == [ce |-> ce \o WeigherTable(input[1]), sz |-> 1]

\* All inputs of at most n bytes.
RECURSIVE InputsOfLen(_)
InputsOfLen(n) ==
    IF n = 0 THEN {<<>>}
    ELSE {Append(s, r) : s \in InputsOfLen(n - 1), r \in Runes}
InputsUpTo(n) == UNION {InputsOfLen(k) : k \in 0..n}

\* --------------------------------------------------------------- iter
\* iter.init: an iterator with an empty element buffer.
NewIter ==
    [bytes |-> <<>>, str |-> <<>>, bytesNil |-> TRUE,
     ce |-> <<>>, pce |-> 0, nce |-> 0, prevCCC |-> 0, pStarter |-> 0]

\* reset without i.prevCCC = 0.
resetKeepsCCC(i) == [i EXCEPT !.ce = <<>>, !.nce = 0, !.pStarter = 0]

\* reset without i.ce = i.ce[:0].
resetKeepsElems(i) == [i EXCEPT !.nce = 0, !.prevCCC = 0, !.pStarter = 0]

reset(i) == [i EXCEPT !.ce = <<>>, !.nce = 0, !.prevCCC = 0, !.pStarter = 0]

setInput(i, s) == reset([i EXCEPT !.bytes = s, !.bytesNil = FALSE, !.str = <<>>])

setInputString(i, s) == reset([i EXCEPT !.str = s, !.bytes = <<>>, !.bytesNil = TRUE])

done(i) == Len(i.str) = 0 /\ Len(i.bytes) = 0

\* tail that leaves the input where it is.
tailNoAdvance(i, n) == i

tail(i, n) ==
    IF i.bytesNil
    THEN [i EXCEPT !.str = Slice(i.str, n, Len(i.str))]
    ELSE [i EXCEPT !.bytes = Slice(i.bytes, n, Len(i.bytes))]

appendNext(i) ==
    LET r == IF i.bytesNil THEN AppendNext(i.ce, i.str) ELSE AppendNext(i.ce, i.bytes)
    IN [it |-> [i EXCEPT !.ce = r.ce], sz |-> r.sz]

maxCombiningCharacters == 30

\* The loop of doNorm: p moves back while the element before it has a
\* higher combining class.
RECURSIVE NormPos(_, _, _)
RECURSIVE NormPosPastEqual(_, _, _)
NormPosPastEqual(i, p, ccc) ==
    IF p > i.pStarter /\ ccc <= CCC(At(i.ce, p - 1))
    THEN NormPosPastEqual(i, p - 1, ccc)
    ELSE p

NormPos(i, p, ccc) ==
    IF p > i.pStarter /\ ccc < CCC(At(i.ce, p - 1))
    THEN NormPos(i, p - 1, ccc)
    ELSE p

\* copy(dst[p:], src[k:]) on one array of length Len(s).
CopyWithin(s, p, k) ==
    [j \in 1..Len(s) |->
        IF j - 1 >= p /\ j - 1 < p + (Len(s) - k) THEN At(s, k + (j - 1 - p)) ELSE s[j]]

\* The block is moved to the front of the buffer, whatever p is.
RotateToFront(ce, p, k, n) == Slice(ce, k, n) \o Slice(ce, 0, k)

\* The three statements that move ce[k:] to p: i.ce = append(i.ce, i.ce[p:k]...);
\* copy(i.ce[p:], i.ce[k:]); i.ce = i.ce[:n].
Rotate(ce, p, k, n) == Slice(CopyWithin(ce \o Slice(ce, p, k), p, k), 0, n)

\* doNorm that leaves the elements in input order.
doNormSkipped(i, p0, ccc) == i

doNorm(i, p0, ccc) ==
    IF p0 - i.pStarter > maxCombiningCharacters
    THEN [i EXCEPT !.prevCCC = CCC(At(i.ce, Len(i.ce) - 1)),
                   !.pStarter = Len(i.ce) - 1]
    ELSE [i EXCEPT !.ce = Rotate(i.ce, NormPos(i, p0 - 1, ccc), p0, Len(i.ce))]

\* The inner loop of next: the first index from p0 up to last that is not a
\* starter.
RECURSIVE SkipStarters(_, _, _)
SkipStarters(ce, p0, last) ==
    IF p0 < last /\ CCC(At(ce, p0)) = 0 THEN SkipStarters(ce, p0 + 1, last) ELSE p0

\* i.tail(sz) on what appendNext returned.
tailAppended(r) == tail(r.it, r.sz)

\* next releases the starters up to q and keeps the marks for the next call.
ReleaseStarters(j, q, ccc) ==
    [it |-> [j EXCEPT !.nce = q, !.pStarter = q - 1, !.prevCCC = ccc], ok |-> TRUE]

RECURSIVE next(_)
\* The body of the loop of next once the block is appended: p0 is the old
\* length, last the index of the last element and ccc its class.
nextBlock(j, p0, last, ccc) ==
    IF ccc = 0
    THEN [it |-> [j EXCEPT !.nce = Len(j.ce), !.pStarter = last, !.prevCCC = 0],
          ok |-> TRUE]
    ELSE IF p0 < last /\ CCC(At(j.ce, p0)) = 0
    THEN ReleaseStarters(j, SkipStarters(j.ce, p0 + 1, last), ccc)
    ELSE IF ccc < j.prevCCC
    THEN next(doNorm(j, p0, ccc))
    ELSE next([j EXCEPT !.prevCCC = ccc])

nextAppended(j, p0) == nextBlock(j, p0, Len(j.ce) - 1, CCC(At(j.ce, Len(j.ce) - 1)))

next(i) ==
    IF ~done(i)
    THEN nextAppended(tailAppended(appendNext(i)), Len(i.ce))
    ELSE IF Len(i.ce) # i.nce
         THEN [it |-> [i EXCEPT !.nce = Len(i.ce)], ok |-> TRUE]
         ELSE [it |-> i, ok |-> FALSE]

\* for i.next() {}
RECURSIVE Drain(_)
DrainStep(r) == IF r.ok THEN Drain(r.it) ELSE r.it
Drain(i) == DrainStep(next(i))

\* ------------------------------------------------------- level walkers
RECURSIVE nextPrimary(_)
\* if !i.next() { return 0 }
nextPrimaryPumped(r) == IF ~r.ok THEN [it |-> r.it, v |-> 0] ELSE nextPrimary(r.it)

nextPrimary(i) ==
    IF i.pce < i.nce
    THEN IF PrimaryOf(At(i.ce, i.pce)) # 0
         THEN [it |-> [i EXCEPT !.pce = @ + 1], v |-> PrimaryOf(At(i.ce, i.pce))]
         ELSE nextPrimary([i EXCEPT !.pce = @ + 1])
    ELSE nextPrimaryPumped(next(i))

RECURSIVE nextSecondary(_)
nextSecondary(i) ==
    IF i.pce < Len(i.ce)
    THEN IF SecondaryOf(At(i.ce, i.pce)) # 0
         THEN [it |-> [i EXCEPT !.pce = @ + 1], v |-> SecondaryOf(At(i.ce, i.pce))]
         ELSE nextSecondary([i EXCEPT !.pce = @ + 1])
    ELSE [it |-> i, v |-> 0]

\* prevSecondary that reads the window from its head.
prevSecondaryForward(i) == nextSecondary(i)

RECURSIVE prevSecondary(_)
prevSecondary(i) ==
    IF i.pce < Len(i.ce)
    THEN IF SecondaryOf(At(i.ce, Len(i.ce) - i.pce - 1)) # 0
         THEN [it |-> [i EXCEPT !.pce = @ + 1],
               v |-> SecondaryOf(At(i.ce, Len(i.ce) - i.pce - 1))]
         ELSE prevSecondary([i EXCEPT !.pce = @ + 1])
    ELSE [it |-> i, v |-> 0]

RECURSIVE nextTertiary(_)
nextTertiary(i) ==
    IF i.pce < Len(i.ce)
    THEN IF TertiaryOf(At(i.ce, i.pce)) # 0
         THEN [it |-> [i EXCEPT !.pce = @ + 1], v |-> TertiaryOf(At(i.ce, i.pce))]
         ELSE nextTertiary([i EXCEPT !.pce = @ + 1])
    ELSE [it |-> i, v |-> 0]

RECURSIVE nextQuaternary(_)
nextQuaternary(i) ==
    IF i.pce < Len(i.ce)
    THEN IF QuaternaryOf(At(i.ce, i.pce)) # 0
         THEN [it |-> [i EXCEPT !.pce = @ + 1], v |-> QuaternaryOf(At(i.ce, i.pce))]
         ELSE nextQuaternary([i EXCEPT !.pce = @ + 1])
    ELSE [it |-> i, v |-> 0]

\* ----------------------------------------------------------- comparator
\* The collator: its exported options.
NewFromTable ==
    [Strength |-> Tertiary, Alternate |-> AltNonIgnorable, Backwards |-> FALSE,
     CaseLevel |-> FALSE, Numeric |-> FALSE, variableTop |-> WeigherTop]

\* The walker handed to compareLevel.
Walk(f, i) ==
    CASE f = "nextPrimary" -> nextPrimary(i)
      [] f = "nextSecondary" -> nextSecondary(i)
      [] f = "prevSecondary" -> prevSecondary(i)
      [] f = "nextTertiary" -> nextTertiary(i)
      [] f = "nextQuaternary" -> nextQuaternary(i)

\* The index of the element a walker reads when its cursor is at k.
ReadIndex(f, i, k) == IF f = "prevSecondary" THEN Len(i.ce) - k - 1 ELSE k

\* A walker called from iterator i for as long as it returns a weight: the
\* weights returned, and the indices read, one for every position the
\* cursor has passed.
RECURSIVE WalkAll(_, _, _, _)
WalkAllCalled(f, i, r, vs, reads) ==
    IF r.v = 0
    THEN [vs |-> vs, reads |-> reads \cup {ReadIndex(f, i, k) : k \in i.pce..(r.it.pce - 1)},
          it |-> r.it]
    ELSE WalkAll(f, r.it, Append(vs, r.v),
                 reads \cup {ReadIndex(f, i, k) : k \in i.pce..(r.it.pce - 1)})
WalkAll(f, i, vs, reads) == WalkAllCalled(f, i, Walk(f, i), vs, reads)

\* The verdict that takes an exhausted b for the larger side.
LevelVerdictExhausted(va, vb) == IF va < vb \/ vb = 0 THEN -1 ELSE 1

\* The verdict of compareLevel on the two weights of one round.
LevelVerdict(va, vb) == IF va < vb THEN -1 ELSE 1

\* The loop of compareLevel: one round on the weights va and vb just read.
RECURSIVE LevelLoop(_, _, _)
LevelRound(f, ra, rb) ==
    IF ra.v # rb.v
    THEN [res |-> LevelVerdict(ra.v, rb.v), a |-> ra.it, b |-> rb.it]
    ELSE IF ra.v = 0
    THEN [res |-> 0, a |-> ra.it, b |-> rb.it]
    ELSE LevelLoop(f, ra.it, rb.it)

LevelLoop(f, a, b) == LevelRound(f, Walk(f, a), Walk(f, b))

\* compareLevel without b.pce = 0.
compareLevelOneReset(f, a, b) == LevelLoop(f, [a EXCEPT !.pce = 0], b)

compareLevel(f, a, b) ==
    LevelLoop(f, [a EXCEPT !.pce = 0], [b EXCEPT !.pce = 0])

\* The levels of Collator.compare, each on the verdict l of the levels
\* before it: l.res is that verdict and l.a, l.b are the iterators.
comparePrimary(c, ia, ib) ==
    IF c.Alternate # AltShifted
    THEN compareLevel("nextPrimary", ia, ib)
    ELSE [res |-> 0, a |-> ia, b |-> ib]

\* The secondary level compared even after the primary level decided.
compareSecondaryUnguarded(c, l) ==
    IF Secondary <= c.Strength
    THEN compareLevel(IF c.Backwards THEN "prevSecondary" ELSE "nextSecondary", l.a, l.b)
    ELSE l

compareSecondary(c, l) ==
    IF l.res # 0 THEN l
    ELSE IF Secondary <= c.Strength
    THEN compareLevel(IF c.Backwards THEN "prevSecondary" ELSE "nextSecondary", l.a, l.b)
    ELSE l

compareTertiary(c, l) ==
    IF l.res # 0 THEN l
    ELSE IF Tertiary <= c.Strength \/ c.CaseLevel
    THEN compareLevel("nextTertiary", l.a, l.b)
    ELSE l

compareQuaternary(c, l) ==
    IF l.res # 0 THEN l
    ELSE IF (Tertiary <= c.Strength \/ c.CaseLevel) /\ Quaternary <= c.Strength
    THEN compareLevel("nextQuaternary", l.a, l.b)
    ELSE l

\* Collator.compare on the two iterators; the iterators are returned as the
\* call leaves them.
compare(c, ia, ib) ==
    compareQuaternary(c, compareTertiary(c, compareSecondary(c, comparePrimary(c, ia, ib))))

\* The tie-break tested against the wrong level.
FallbackWrongLevel(c, a, b) == IF Quaternary = c.Strength THEN bytesCompare(a, b) ELSE 0

\* The tie-break of Compare and CompareString.
Fallback(c, a, b) == IF Identity = c.Strength THEN bytesCompare(a, b) ELSE 0

\* What Compare and CompareString return on the verdict r of compare.
CompareResult(c, a, b, r) ==
    [res |-> IF r.res # 0 THEN r.res ELSE Fallback(c, a, b),
     levels |-> r.res, it |-> <<r.a, r.b>>]

\* Collator.Compare on iterators it = <<iter(0), iter(1)>>.
Compare(c, it, a, b) ==
    CompareResult(c, a, b, compare(c, setInput(it[1], a), setInput(it[2], b)))

CompareString(c, it, a, b) ==
    CompareResult(c, a, b, compare(c, setInputString(it[1], a), setInputString(it[2], b)))

\* ------------------------------------------------- variable processing
\* The AltShifted loop without the test p != 0 on a variable.
RECURSIVE ShiftWeightsZeroToo(_, _, _, _)
ShiftWeightsZeroToo(vtop, wa, k, ignore) ==
    IF k >= Len(wa) THEN wa
    ELSE IF PrimaryOf(At(wa, k)) <= vtop
    THEN ShiftWeightsZeroToo(vtop, [wa EXCEPT ![k + 1] = MakeQuaternary(PrimaryOf(At(wa, k)))],
                             k + 1, TRUE)
    ELSE ShiftWeightsZeroToo(vtop, wa, k + 1, FALSE)

\* The AltShifted loop that never clears ignore.
RECURSIVE ShiftWeightsStickyIgnore(_, _, _, _)
ShiftWeightsStickyIgnore(vtop, wa, k, ignore) ==
    IF k >= Len(wa) THEN wa
    ELSE IF PrimaryOf(At(wa, k)) <= vtop /\ PrimaryOf(At(wa, k)) # 0
    THEN ShiftWeightsStickyIgnore(
             vtop, [wa EXCEPT ![k + 1] = MakeQuaternary(PrimaryOf(At(wa, k)))], k + 1, TRUE)
    ELSE IF PrimaryOf(At(wa, k)) = 0
    THEN ShiftWeightsStickyIgnore(vtop, IF ignore THEN [wa EXCEPT ![k + 1] = Ignore] ELSE wa,
                                  k + 1, ignore)
    ELSE ShiftWeightsStickyIgnore(vtop, wa, k + 1, ignore)

RECURSIVE ShiftWeights(_, _, _, _)
ShiftWeights(vtop, wa, k, ignore) ==
    IF k >= Len(wa) THEN wa
    ELSE LET p == PrimaryOf(At(wa, k))
         IN IF p <= vtop /\ p # 0
            THEN ShiftWeights(vtop, [wa EXCEPT ![k + 1] = MakeQuaternary(p)], k + 1, TRUE)
            ELSE IF p = 0
            THEN ShiftWeights(vtop, IF ignore THEN [wa EXCEPT ![k + 1] = Ignore] ELSE wa,
                              k + 1, ignore)
            ELSE ShiftWeights(vtop, wa, k + 1, FALSE)

RECURSIVE BlankWeights(_, _, _, _)
BlankWeights(vtop, wa, k, ignore) ==
    IF k >= Len(wa) THEN wa
    ELSE LET p == PrimaryOf(At(wa, k))
         IN IF p <= vtop /\ (ignore \/ p # 0)
            THEN BlankWeights(vtop, [wa EXCEPT ![k + 1] = Ignore], k + 1, TRUE)
            ELSE BlankWeights(vtop, wa, k + 1, FALSE)

processWeights(vw, top, wa) ==
    CASE vw \in {AltShifted, AltShiftTrimmed} -> ShiftWeights(top, wa, 0, FALSE)
      [] vw = AltBlanked -> BlankWeights(top, wa, 0, FALSE)
      [] OTHER -> wa

\* ---------------------------------------------------------- key encoder
\* appendPrimary without the marker 0x80 on the first of three bytes.
appendPrimaryNoMarker(key, p) ==
    IF p <= 32767
    THEN key \o <<Byte(p \div 256), Byte(p)>>
    ELSE key \o <<Byte(p \div 65536), Byte(p \div 256), Byte(p)>>

appendPrimary(key, p) ==
    IF p <= 32767
    THEN key \o <<Byte(p \div 256), Byte(p)>>
    ELSE key \o <<Or128(Byte(p \div 65536)), Byte(p \div 256), Byte(p)>>

\* The primary section: for _, v := range ws.
RECURSIVE PrimarySection(_, _, _)
PrimarySection(key, ws, k) ==
    IF k >= Len(ws) THEN key
    ELSE PrimarySection(IF PrimaryOf(At(ws, k)) > 0
                        THEN appendPrimary(key, PrimaryOf(At(ws, k))) ELSE key,
                        ws, k + 1)

RECURSIVE SecondarySection(_, _, _)
SecondarySection(key, ws, k) ==
    IF k >= Len(ws) THEN key
    ELSE LET w == SecondaryOf(At(ws, k))
         IN SecondarySection(IF w > 0 THEN key \o <<Byte(w \div 256), Byte(w)>> ELSE key,
                             ws, k + 1)

\* for i := len(ws) - 1; i >= 0; i--
RECURSIVE SecondarySectionBackwards(_, _, _)
SecondarySectionBackwards(key, ws, k) ==
    IF k < 0 THEN key
    ELSE LET w == SecondaryOf(At(ws, k))
         IN SecondarySectionBackwards(
                IF w > 0 THEN key \o <<Byte(w \div 256), Byte(w)>> ELSE key, ws, k - 1)

\* The tertiary loop without the test w > 0.
RECURSIVE TertiarySectionZeroToo(_, _, _)
TertiarySectionZeroToo(key, ws, k) ==
    IF k >= Len(ws) THEN key
    ELSE TertiarySectionZeroToo(Append(key, Byte(TertiaryOf(At(ws, k)))), ws, k + 1)

RECURSIVE TertiarySection(_, _, _)
TertiarySection(key, ws, k) ==
    IF k >= Len(ws) THEN key
    ELSE LET w == TertiaryOf(At(ws, k))
         IN TertiarySection(IF w > 0 THEN Append(key, Byte(w)) ELSE key, ws, k + 1)

\* The quaternary loop; lastNonFFFF is carried along for AltShiftTrimmed.
RECURSIVE QuaternarySection(_, _, _, _)
QuaternarySection(key, ws, k, lastNonFFFF) ==
    IF k >= Len(ws) THEN [key |-> key, lastNonFFFF |-> lastNonFFFF]
    ELSE LET w == QuaternaryOf(At(ws, k))
         IN IF w = MaxQuaternary
            THEN QuaternarySection(Append(key, 255), ws, k + 1, lastNonFFFF)
            ELSE IF w > 0
            THEN QuaternarySection(appendPrimary(key, w), ws, k + 1,
                                   Len(appendPrimary(key, w)))
            ELSE QuaternarySection(key, ws, k + 1, lastNonFFFF)

\* The sections of keyFromElems after the primary section, each on the key
\* built so far.
\* The cut made on the bytes of the key: every trailing byte 0xFF goes.
RECURSIVE StripTrailingFF(_)
StripTrailingFF(key) ==
    IF key # <<>> /\ key[Len(key)] = 255
    THEN StripTrailingFF(SubSeq(key, 1, Len(key) - 1))
    ELSE key
keyTrimmedByBytes(c, q) ==
    IF c.Alternate = AltShiftTrimmed THEN StripTrailingFF(q.key) ELSE q.key

keyTrimmed(c, q) ==
    IF c.Alternate = AltShiftTrimmed THEN Slice(q.key, 0, q.lastNonFFFF) ELSE q.key

keyQuaternary(c, k3, ws) ==
    IF Quaternary <= c.Strength /\ c.Alternate >= AltShifted
    THEN keyTrimmed(c, QuaternarySection(Append(k3, 0), ws, 0, Len(k3)))
    ELSE k3

keyTertiary(c, k2, ws) ==
    IF Tertiary <= c.Strength \/ c.CaseLevel
    THEN keyQuaternary(c, TertiarySection(k2 \o <<0, 0>>, ws, 0), ws)
    ELSE k2

\* keySecondary without the separator of the case level.
keySecondaryNoCaseSeparator(c, k1, ws) ==
    IF Secondary <= c.Strength
    THEN IF ~c.Backwards
         THEN SecondarySection(k1 \o <<0, 0>>, ws, 0)
         ELSE SecondarySectionBackwards(k1 \o <<0, 0>>, ws, Len(ws) - 1)
    ELSE k1

keySecondary(c, k1, ws) ==
    IF Secondary <= c.Strength
    THEN IF ~c.Backwards
         THEN SecondarySection(k1 \o <<0, 0>>, ws, 0)
         ELSE SecondarySectionBackwards(k1 \o <<0, 0>>, ws, Len(ws) - 1)
    ELSE IF c.CaseLevel THEN k1 \o <<0, 0>> ELSE k1

\* Collator.keyFromElems: the new contents of buf.key.
keyFromElems(c, key, ws) ==
    keyTertiary(c, keySecondary(c, PrimarySection(key, ws, 0), ws), ws)

\* Collator.getColElems / getColElemsString on iter(0).
getColElems(it, str) == Drain(setInput(it, str))
getColElemsString(it, str) == Drain(setInputString(it, str))

\* return buf.key[kn:], with the Buffer and the iterator as key leaves them.
keyReturn(kn, nk, i0, w) ==
    [bufKey |-> nk, kn |-> kn, ret |-> Slice(nk, kn, Len(nk)), it |-> [i0 EXCEPT !.ce = w]]

keyOfWeights(c, bufKey, i0, w) == keyReturn(Len(bufKey), keyFromElems(c, bufKey, w), i0, w)

\* key with kn read after keyFromElems.
keyLateLenOfWeights(c, bufKey, i0, w) ==
    keyReturn(Len(keyFromElems(c, bufKey, w)), keyFromElems(c, bufKey, w), i0, w)
keyLateLen(c, bufKey, i0) ==
    keyLateLenOfWeights(c, bufKey, i0, processWeights(c.Alternate, WeigherTop, i0.ce))

\* Collator.key: the weights are processed in place in the iterator's
\* buffer, and the slice buf.key[kn:] is returned.
key(c, bufKey, i0) ==
    keyOfWeights(c, bufKey, i0, processWeights(c.Alternate, WeigherTop, i0.ce))

\* Key and KeyFromString leave iter(1) alone.
KeyResult(r, i1) == [bufKey |-> r.bufKey, kn |-> r.kn, ret |-> r.ret, it |-> <<r.it, i1>>]

\* Collator.Key and Collator.KeyFromString.
Key(c, bufKey, it, str) == KeyResult(key(c, bufKey, getColElems(it[1], str)), it[2])

KeyFromString(c, bufKey, it, str) ==
    KeyResult(key(c, bufKey, getColElemsString(it[1], str)), it[2])

\* ======================================================== state machine
VARIABLES
    c,        \* the collator's options
    iters,    \* Collator._iter: <<iter(0), iter(1)>>
    bufKey,   \* Buffer.key, the keys generated since the last Reset
    keys,     \* the slices returned by Key since the last Reset: offset and bytes
    last,     \* the last call on the collator: its name and arguments
    out,      \* what the last call (or scripted run) returned
    calls,    \* number of calls made so far
    args,     \* the inputs of a scripted run
    pc        \* "calls", or the position of a scripted run

vars == <<c, iters, bufKey, keys, last, out, calls, args, pc>>

\* Every assignment of the exported option fields.
Configs ==
    {[NewFromTable EXCEPT !.Strength = s, !.Alternate = a, !.Backwards = b, !.CaseLevel = cl] :
        s \in Levels, a \in Alternates, b \in BOOLEAN, cl \in BOOLEAN}

NoCall == [op |-> "none", a |-> <<>>, b |-> <<>>, o |-> 0]
NoOut == [done |-> FALSE]

\* A collator as NewFromTable builds it, its option fields then assigned by
\* the caller, and an empty Buffer.
InitCollator ==
    /\ c \in Configs
    /\ iters = <<NewIter, NewIter>>
    /\ bufKey = <<>>
    /\ keys = <<>>
    /\ last = NoCall
    /\ out = NoOut
    /\ calls = 0

Init ==
    /\ InitCollator
    /\ args = <<>>
    /\ pc = "calls"

\* The arguments of the calls: the empty input, an input on which a
\* comparison returns before the other input is consumed, an input with a
\* variable followed by two marks that are reordered, and an input whose
\* rune expands to a starter and a mark.
SeqInputs == {<<>>, <<rLowerA, rLowerB>>, <<rSpace, rAcute, rBelow>>, <<rAAcute>>}

DoCompare(a, b) ==
    /\ pc = "calls" /\ calls < MaxCalls
    /\ out' = Compare(c, iters, a, b)
    /\ iters' = out'.it
    /\ last' = [NoCall EXCEPT !.op = "Compare", !.a = a, !.b = b]
    /\ calls' = calls + 1
    /\ UNCHANGED <<c, bufKey, keys, args, pc>>

DoCompareString(a, b) ==
    /\ pc = "calls" /\ calls < MaxCalls
    /\ out' = CompareString(c, iters, a, b)
    /\ iters' = out'.it
    /\ last' = [NoCall EXCEPT !.op = "CompareString", !.a = a, !.b = b]
    /\ calls' = calls + 1
    /\ UNCHANGED <<c, bufKey, keys, args, pc>>

DoKey(str) ==
    /\ pc = "calls" /\ calls < MaxCalls
    /\ out' = Key(c, bufKey, iters, str)
    /\ iters' = out'.it
    /\ bufKey' = out'.bufKey
    /\ keys' = Append(keys, [off |-> out'.kn, bytes |-> out'.ret])
    /\ last' = [NoCall EXCEPT !.op = "Key", !.a = str]
    /\ calls' = calls + 1
    /\ UNCHANGED <<c, args, pc>>

DoKeyFromString(str) ==
    /\ pc = "calls" /\ calls < MaxCalls
    /\ out' = KeyFromString(c, bufKey, iters, str)
    /\ iters' = out'.it
    /\ bufKey' = out'.bufKey
    /\ keys' = Append(keys, [off |-> out'.kn, bytes |-> out'.ret])
    /\ last' = [NoCall EXCEPT !.op = "KeyFromString", !.a = str]
    /\ calls' = calls + 1
    /\ UNCHANGED <<c, args, pc>>

\* Buffer.Reset: b.key = b.key[:0]; the slices returned before are dead.
Reset ==
    /\ pc = "calls" /\ calls < MaxCalls
    /\ bufKey' = Slice(bufKey, 0, 0)
    /\ keys' = <<>>
    /\ last' = [NoCall EXCEPT !.op = "Reset"]
    /\ out' = NoOut
    /\ calls' = calls + 1
    /\ UNCHANGED <<c, iters, args, pc>>

\* Collator.SetOptions: the body is empty.
SetOptions(o) ==
    /\ pc = "calls" /\ calls < MaxCalls
    /\ c' = c
    /\ last' = [NoCall EXCEPT !.op = "SetOptions", !.o = o]
    /\ out' = NoOut
    /\ calls' = calls + 1
    /\ UNCHANGED <<iters, bufKey, keys, args, pc>>

Next ==
    \/ \E a \in SeqInputs, b \in SeqInputs : DoCompare(a, b)
    \/ \E a \in SeqInputs, b \in SeqInputs : DoCompareString(a, b)
    \/ \E str \in SeqInputs : DoKey(str)
    \/ \E str \in SeqInputs : DoKeyFromString(str)
    \/ Reset
    \/ \E o \in Options : SetOptions(o)

Spec == Init /\ [][Next]_vars

\* ------------------------------------------------ scripted run: a pair
\* Compare(x, y), Compare(y, x), CompareString(x, y), Key(x) and Key(y) are
\* called in this order on one collator with its Buffer.
PairOut(r1, r2, r3, k1, k2) ==
    [done |-> TRUE, xy |-> r1.res, levels |-> r1.levels, yx |-> r2.res,
     sxy |-> r3.res, slevels |-> r3.levels, kx |-> k1.ret, ky |-> k2.ret,
     kn1 |-> k1.kn, kn2 |-> k2.kn, it |-> k2.it, bufKey |-> k2.bufKey]
PairKeyY(cc, y, r1, r2, r3, k1) == PairOut(r1, r2, r3, k1, Key(cc, k1.bufKey, k1.it, y))
PairKeyX(cc, bk, x, y, r1, r2, r3) == PairKeyY(cc, y, r1, r2, r3, Key(cc, bk, r3.it, x))
PairString(cc, bk, x, y, r1, r2) ==
    PairKeyX(cc, bk, x, y, r1, r2, CompareString(cc, r2.it, x, y))
PairBack(cc, bk, x, y, r1) == PairString(cc, bk, x, y, r1, Compare(cc, r1.it, y, x))
PairRun(cc, it, bk, x, y) == PairBack(cc, bk, x, y, Compare(cc, it, x, y))

InitPair ==
    /\ InitCollator
    /\ args \in InputsUpTo(MaxLen) \X InputsUpTo(MaxLen)
    /\ pc = "pair"

RunPair ==
    /\ pc = "pair"
    /\ out' = PairRun(c, iters, bufKey, args[1], args[2])
    /\ iters' = out'.it
    /\ bufKey' = out'.bufKey
    /\ keys' = <<[off |-> out'.kn1, bytes |-> out'.kx], [off |-> out'.kn2, bytes |-> out'.ky]>>
    /\ pc' = "done"
    /\ UNCHANGED <<c, last, calls, args>>

NextPair == RunPair

SpecPair == InitPair /\ [][NextPair]_vars

\* ---------------------------------------------- scripted run: a triple
\* Compare(x, y), Compare(y, z) and Compare(x, z) on one collator whose
\* Strength is Identity.
TripleOut(r1, r2, r3) ==
    [done |-> TRUE, xy |-> r1.res, yz |-> r2.res, xz |-> r3.res, it |-> r3.it]
TripleXZ(cc, x, z, r1, r2) == TripleOut(r1, r2, Compare(cc, r2.it, x, z))
TripleYZ(cc, x, y, z, r1) == TripleXZ(cc, x, z, r1, Compare(cc, r1.it, y, z))
TripleRun(cc, it, x, y, z) == TripleYZ(cc, x, y, z, Compare(cc, it, x, y))

InitTriple ==
    /\ InitCollator
    /\ c.Strength = Identity
    /\ args \in InputsUpTo(MaxLenTriple) \X InputsUpTo(MaxLenTriple) \X InputsUpTo(MaxLenTriple)
    /\ pc = "triple"

RunTriple ==
    /\ pc = "triple"
    /\ out' = TripleRun(c, iters, args[1], args[2], args[3])
    /\ iters' = out'.it
    /\ pc' = "done"
    /\ UNCHANGED <<c, bufKey, keys, last, calls, args>>

NextTriple == RunTriple

SpecTriple == InitTriple /\ [][NextTriple]_vars

\* ------------------------------- scripted run: canonically equivalent pair
\* The combining class of a rune of the alphabet.
RuneCCC(r) == CCC(At(WeigherTable(r), Len(WeigherTable(r)) - 1))
IsMark(r) == Len(WeigherTable(r)) = 1 /\ RuneCCC(r) # 0

\* x with the adjacent marks at k and k + 1 exchanged.
SwapAt(x, k) == [x EXCEPT ![k] = x[k + 1], ![k + 1] = x[k]]

\* The inputs one exchange of two adjacent marks of different non-zero
\* combining class away from x.
Swaps(x) ==
    {SwapAt(x, k) : k \in {j \in 1..(Len(x) - 1) :
        /\ IsMark(x[j]) /\ IsMark(x[j + 1])
        /\ RuneCCC(x[j]) # RuneCCC(x[j + 1])}}

\* The inputs canonically equivalent to those of S: closed under exchanges.
RECURSIVE SwapClosure(_)
SwapClosure(S) ==
    LET T == S \cup UNION {Swaps(x) : x \in S}
    IN IF T = S THEN S ELSE SwapClosure(T)

\* The elements released for x, then Compare(x, y) and Compare(y, x).
NormOut(e1, e2, r1, r2) ==
    [done |-> TRUE, cex |-> e1.ce, cey |-> e2.ce, xy |-> r1.res, yx |-> r2.res,
     it |-> r2.it]
NormBack(cc, x, y, e1, e2, r1) == NormOut(e1, e2, r1, CompareString(cc, r1.it, y, x))
NormCompare(cc, i1, x, y, e1, e2) == NormBack(cc, x, y, e1, e2, Compare(cc, <<e2, i1>>, x, y))
NormElemsY(cc, i1, x, y, e1) == NormCompare(cc, i1, x, y, e1, getColElems(e1, y))
NormRun(cc, it, x, y) == NormElemsY(cc, it[2], x, y, getColElems(it[1], x))

InitNorm ==
    /\ InitCollator
    /\ c.Strength <= Tertiary
    /\ \E x \in InputsUpTo(MaxLenNorm) : \E y \in SwapClosure({x}) : args = <<x, y>>
    /\ pc = "norm"

RunNorm ==
    /\ pc = "norm"
    /\ out' = NormRun(c, iters, args[1], args[2])
    /\ iters' = out'.it
    /\ pc' = "done"
    /\ UNCHANGED <<c, bufKey, keys, last, calls, args>>

NextNorm == RunNorm

SpecNorm == InitNorm /\ [][NextNorm]_vars

\* ------------------------------------- scripted run: two strengths
\* Compare(x, y) with Strength Primary, then c.Strength = Tertiary and
\* Compare(x, y) again, on one collator. plevel is the verdict of the primary
\* level alone.
StrengthOut(pl, r1, r2) ==
    [done |-> TRUE, plevel |-> pl.res, prim |-> r1.res, tert |-> r2.res, it |-> r2.it]
StrengthRaised(cc, x, y, pl, r1) ==
    StrengthOut(pl, r1, Compare([cc EXCEPT !.Strength = Tertiary], r1.it, x, y))
StrengthRun(cc, it, x, y) ==
    StrengthRaised(cc, x, y, comparePrimary(cc, setInput(it[1], x), setInput(it[2], y)),
                   Compare(cc, it, x, y))

InitStrength ==
    /\ InitCollator
    /\ c.Strength = Primary
    /\ args \in InputsUpTo(MaxLen) \X InputsUpTo(MaxLen)
    /\ pc = "strength"

RunStrength ==
    /\ pc = "strength"
    /\ out' = StrengthRun(c, iters, args[1], args[2])
    /\ iters' = out'.it
    /\ c' = [c EXCEPT !.Strength = Tertiary]
    /\ pc' = "done"
    /\ UNCHANGED <<bufKey, keys, last, calls, args>>

NextStrength == RunStrength

SpecStrength == InitStrength /\ [][NextStrength]_vars

\* ----------------------------------- scripted run: an element window
\* The elements a window is drawn from: a variable, two non-variables (one
\* with a three-byte primary), a primary ignorable mark, Ignore and a
\* quaternary-only element whose encoding ends in the byte 0xFF.
WindowElems ==
    {At(WeigherTable(rSpace), 0), At(WeigherTable(rUpperA), 0),
     At(WeigherTable(rLowerB), 0), At(WeigherTable(rAcute), 0),
     Ignore, MakeQuaternary(255)}

WindowsOfLen(n) == [1..n -> WindowElems]
WindowsUpTo(n) == UNION {WindowsOfLen(k) : k \in 0..n}

\* c.key(buf, w) on the window w held by iter(0), then processWeights on the
\* processed window once more, and keyFromElems of the processed window
\* with Alternate AltShifted.
\* The last two steps walk the processed window from pce = 0 with
\* prevSecondary and with nextSecondary.
WeightsOut(kr, w2, ks, wp, wn) ==
    [done |-> TRUE, w1 |-> kr.it.ce, w2 |-> w2, key |-> kr.ret, keyShifted |-> ks,
     prev |-> wp.vs, prevReads |-> wp.reads, next |-> wn.vs,
     kn |-> kr.kn, it |-> kr.it, bufKey |-> kr.bufKey]
WeightsAgain(cc, kr) ==
    WeightsOut(kr, processWeights(cc.Alternate, WeigherTop, kr.it.ce),
               keyFromElems([cc EXCEPT !.Alternate = AltShifted], <<>>, kr.it.ce),
               WalkAll("prevSecondary", [kr.it EXCEPT !.pce = 0], <<>>, {}),
               WalkAll("nextSecondary", [kr.it EXCEPT !.pce = 0], <<>>, {}))
WeightsRun(cc, bk, i0) == WeightsAgain(cc, key(cc, bk, i0))

InitWeights ==
    /\ c \in Configs
    /\ bufKey = <<>>
    /\ keys = <<>>
    /\ last = NoCall
    /\ out = NoOut
    /\ calls = 0
    /\ \E ws \in WindowsUpTo(MaxLenWindow) :
          /\ args = <<ws>>
          /\ iters = <<[NewIter EXCEPT !.ce = ws, !.nce = Len(ws)], NewIter>>
    /\ pc = "weights"

RunWeights ==
    /\ pc = "weights"
    /\ out' = WeightsRun(c, bufKey, iters[1])
    /\ iters' = <<out'.it, iters[2]>>
    /\ bufKey' = out'.bufKey
    /\ keys' = <<[off |-> out'.kn, bytes |-> out'.key]>>
    /\ pc' = "done"
    /\ UNCHANGED <<c, last, calls, args>>

NextWeights == RunWeights

SpecWeights == InitWeights /\ [][NextWeights]_vars

\* ------------------------------------------ the loops, step by step
\* One pass through the body of the loop of next, for !i.done(): ok tells
\* whether next returns true from it; otherwise the loop goes on.
nextBody(j, p0, end, ccc) ==
    IF ccc = 0
    THEN [it |-> [j EXCEPT !.nce = Len(j.ce), !.pStarter = end, !.prevCCC = 0],
          ok |-> TRUE]
    ELSE IF p0 < end /\ CCC(At(j.ce, p0)) = 0
    THEN ReleaseStarters(j, SkipStarters(j.ce, p0 + 1, end), ccc)
    ELSE IF ccc < j.prevCCC
    THEN [it |-> doNorm(j, p0, ccc), ok |-> FALSE]
    ELSE [it |-> [j EXCEPT !.prevCCC = ccc], ok |-> FALSE]

nextBodyAppended(j, p0) == nextBody(j, p0, Len(j.ce) - 1, CCC(At(j.ce, Len(j.ce) - 1)))

nextIteration(i) == nextBodyAppended(tailAppended(appendNext(i)), Len(i.ce))

\* What next does after its loop, when the input is done.
nextAfterLoop(i) ==
    IF Len(i.ce) # i.nce
    THEN [it |-> [i EXCEPT !.nce = Len(i.ce)], ok |-> TRUE]
    ELSE [it |-> i, ok |-> FALSE]

\* The input an iterator has left.
Remaining(i) == IF i.bytesNil THEN i.str ELSE i.bytes

\* Where control goes when next returns: getColElems calls next again while
\* it returns true; nextPrimary goes back to its scan on true and returns 0
\* on false.
AfterNext(op, ok) ==
    IF op = "Key" THEN (IF ok THEN "next" ELSE "done")
    ELSE (IF ok THEN "primary" ELSE "done")

\* The input is set on iter(0); Key drains it with next, Compare walks it
\* with nextPrimary for as long as a weight is returned.
InitSteps ==
    /\ c = NewFromTable
    /\ bufKey = <<>>
    /\ keys = <<>>
    /\ out = NoOut
    /\ calls = 0
    /\ \E x \in InputsUpTo(MaxLenSteps), op \in {"Key", "Compare"} :
          /\ args = <<x>>
          /\ last = [NoCall EXCEPT !.op = op, !.a = x]
          /\ iters = <<setInput(NewIter, x), NewIter>>
          /\ pc = IF op = "Key" THEN "next" ELSE "primary"

\* One pass through the loop of next.
StepIterate ==
    /\ pc = "next" /\ ~done(iters[1])
    /\ out' = nextIteration(iters[1])
    /\ iters' = <<out'.it, iters[2]>>
    /\ pc' = IF out'.ok THEN AfterNext(last.op, TRUE) ELSE "next"
    /\ UNCHANGED <<c, bufKey, keys, last, calls, args>>

\* next leaves its loop.
StepExit ==
    /\ pc = "next" /\ done(iters[1])
    /\ out' = nextAfterLoop(iters[1])
    /\ iters' = <<out'.it, iters[2]>>
    /\ pc' = AfterNext(last.op, out'.ok)
    /\ UNCHANGED <<c, bufKey, keys, last, calls, args>>

\* One pass through the scan of nextPrimary: the element at pce is read and
\* pce moves on, whether its primary is returned or skipped.
StepScan ==
    /\ pc = "primary" /\ iters[1].pce < iters[1].nce
    /\ out' = [it |-> [iters[1] EXCEPT !.pce = @ + 1], ok |-> TRUE,
               v |-> PrimaryOf(At(iters[1].ce, iters[1].pce))]
    /\ iters' = <<out'.it, iters[2]>>
    /\ UNCHANGED <<c, bufKey, keys, last, calls, args, pc>>

\* The window is used up: nextPrimary calls next.
StepPump ==
    /\ pc = "primary" /\ iters[1].pce >= iters[1].nce
    /\ pc' = "next"
    /\ UNCHANGED <<c, iters, bufKey, keys, last, out, calls, args>>

NextSteps == StepIterate \/ StepExit \/ StepScan \/ StepPump

\* The loops are sequential code: a step that can be taken is taken.
SpecSteps == InitSteps /\ [][NextSteps]_vars /\ WF_vars(NextSteps)

\* ------------------------------- the loops on runs of combining marks
\* The inputs: a run of acute accents, short, about as long as the window of
\* doNorm or of MaxRun marks, followed by a few runes among a letter and four marks of
\* combining class 230, 220, 220 and 202.
TailRunes == {rLowerA, rAcute, rBelow, rHook, rCedilla}
RECURSIVE TailsOfLen(_)
TailsOfLen(n) ==
    IF n = 0 THEN {<<>>}
    ELSE {Append(s, r) : s \in TailsOfLen(n - 1), r \in TailRunes}
TailsUpTo(n) == UNION {TailsOfLen(k) : k \in 0..n}
RunLengths ==
    (0..2) \cup (maxCombiningCharacters..(maxCombiningCharacters + 2)) \cup {MaxRun}
MarkInputs == {[k \in 1..n |-> rAcute] \o t : n \in RunLengths, t \in TailsUpTo(MaxLenTail)}

InitMarks ==
    /\ c = NewFromTable
    /\ bufKey = <<>>
    /\ keys = <<>>
    /\ out = NoOut
    /\ calls = 0
    /\ \E x \in MarkInputs, op \in {"Key", "Compare"} :
          /\ args = <<x>>
          /\ last = [NoCall EXCEPT !.op = op, !.a = x]
          /\ iters = <<setInput(NewIter, x), NewIter>>
          /\ pc = IF op = "Key" THEN "next" ELSE "primary"

NextMarks == StepIterate \/ StepExit \/ StepScan \/ StepPump

SpecMarks == InitMarks /\ [][NextMarks]_vars /\ WF_vars(NextMarks)

\* ------------------------------------------- calls, entry and the rest
\* Every call in two steps: the input is set on the iterators (the first
\* statements of Compare, CompareString, getColElems and getColElemsString),
\* then the rest of the call runs.
EntryInputs == {<<>>, <<rLowerA, rLowerB>>, <<rAAcute, rBelow>>}
EntryConfigs == {[NewFromTable EXCEPT !.Strength = s] : s \in {Primary, Tertiary, Identity}}

InitEntry ==
    /\ c \in EntryConfigs
    /\ iters = <<NewIter, NewIter>>
    /\ bufKey = <<>>
    /\ keys = <<>>
    /\ last = NoCall
    /\ out = NoOut
    /\ calls = 0
    /\ args = <<>>
    /\ pc = "idle"

EnterCompare(a, b) ==
    /\ pc = "idle" /\ calls < MaxEntries
    /\ iters' = <<setInput(iters[1], a), setInput(iters[2], b)>>
    /\ last' = [NoCall EXCEPT !.op = "Compare", !.a = a, !.b = b]
    /\ pc' = "entered"
    /\ UNCHANGED <<c, bufKey, keys, out, calls, args>>

EnterCompareString(a, b) ==
    /\ pc = "idle" /\ calls < MaxEntries
    /\ iters' = <<setInputString(iters[1], a), setInputString(iters[2], b)>>
    /\ last' = [NoCall EXCEPT !.op = "CompareString", !.a = a, !.b = b]
    /\ pc' = "entered"
    /\ UNCHANGED <<c, bufKey, keys, out, calls, args>>

EnterKey(str) ==
    /\ pc = "idle" /\ calls < MaxEntries
    /\ iters' = <<setInput(iters[1], str), iters[2]>>
    /\ last' = [NoCall EXCEPT !.op = "Key", !.a = str]
    /\ pc' = "entered"
    /\ UNCHANGED <<c, bufKey, keys, out, calls, args>>

EnterKeyFromString(str) ==
    /\ pc = "idle" /\ calls < MaxEntries
    /\ iters' = <<setInputString(iters[1], str), iters[2]>>
    /\ last' = [NoCall EXCEPT !.op = "KeyFromString", !.a = str]
    /\ pc' = "entered"
    /\ UNCHANGED <<c, bufKey, keys, out, calls, args>>

\* The rest of Compare and CompareString: compare and the tie-break.
RestOfCompare(cc, it, a, b) == CompareResult(cc, a, b, compare(cc, it[1], it[2]))
\* The rest of Key and KeyFromString: the drain of getColElems and key.
RestOfKey(cc, bk, it) == KeyResult(key(cc, bk, Drain(it[1])), it[2])

FinishCompare ==
    /\ pc = "entered" /\ last.op \in {"Compare", "CompareString"}
    /\ out' = RestOfCompare(c, iters, last.a, last.b)
    /\ iters' = out'.it
    /\ calls' = calls + 1
    /\ pc' = "idle"
    /\ UNCHANGED <<c, bufKey, keys, last, args>>

FinishKey ==
    /\ pc = "entered" /\ last.op \in {"Key", "KeyFromString"}
    /\ out' = RestOfKey(c, bufKey, iters)
    /\ iters' = out'.it
    /\ bufKey' = out'.bufKey
    /\ keys' = Append(keys, [off |-> out'.kn, bytes |-> out'.ret])
    /\ calls' = calls + 1
    /\ pc' = "idle"
    /\ UNCHANGED <<c, last, args>>

NextEntry ==
    \/ \E a \in EntryInputs, b \in EntryInputs : EnterCompare(a, b)
    \/ \E a \in EntryInputs, b \in EntryInputs : EnterCompareString(a, b)
    \/ \E str \in EntryInputs : EnterKey(str)
    \/ \E str \in EntryInputs : EnterKeyFromString(str)
    \/ FinishCompare
    \/ FinishKey

SpecEntry == InitEntry /\ [][NextEntry]_vars

\* ------------------------------------- scripted run: two primaries
\* The weights appendPrimary supports: up to 23 bits.
PrimaryLimit == 8388608

\* The weights tried: those within MaxDelta of the points where the
\* encoding changes its length or a byte.
PrimarySamples ==
    {b + d : b \in {0, 256, 32768, 65536, 8323072, PrimaryLimit},
             d \in (0 - MaxDelta)..MaxDelta} \cap (1..(PrimaryLimit - 1))

\* appendPrimary on p and on q, and the quaternary loop on a window of an
\* element with MaxQuaternary and a quaternary-only element carrying p.
PrimaryRun(p, q) ==
    [done |-> TRUE, ep |-> appendPrimary(<<>>, p), eq |-> appendPrimary(<<>>, q),
     quat |-> QuaternarySection(<<>>, <<At(WeigherTable(rLowerA), 0), MakeQuaternary(p)>>,
                                0, 0).key]

InitPrimary ==
    /\ InitCollator
    /\ c = NewFromTable
    /\ args \in PrimarySamples \X PrimarySamples
    /\ pc = "primary"

RunPrimary ==
    /\ pc = "primary"
    /\ out' = PrimaryRun(args[1], args[2])
    /\ pc' = "done"
    /\ UNCHANGED <<c, iters, bufKey, keys, last, calls, args>>

NextPrimary == RunPrimary

SpecPrimary == InitPrimary /\ [][NextPrimary]_vars

\* ================================================================ claims
Fresh == <<NewIter, NewIter>>

\* The elements of input x contain a variable: 0 < primary <= variable top.
IsVariable(e) == PrimaryOf(e) # 0 /\ PrimaryOf(e) <= WeigherTop
HasVariable(x) ==
    \E k \in 1..Len(x) : \E j \in 1..Len(WeigherTable(x[k])) : IsVariable(WeigherTable(x[k])[j])

\* x with every variable rune and the primary ignorable runes that follow it
\* removed.
RECURSIVE RemoveVariables(_, _)
RemoveVariables(x, ignore) ==
    IF x = <<>> THEN <<>>
    ELSE LET es == WeigherTable(Head(x))
         IN IF \E j \in 1..Len(es) : IsVariable(es[j])
            THEN RemoveVariables(Tail(x), TRUE)
            ELSE IF \A j \in 1..Len(es) : PrimaryOf(es[j]) = 0
            THEN IF ignore THEN RemoveVariables(Tail(x), TRUE)
                 ELSE <<Head(x)>> \o RemoveVariables(Tail(x), FALSE)
            ELSE <<Head(x)>> \o RemoveVariables(Tail(x), FALSE)

\* C1: for every configuration with a non-Identity strength and all inputs
\* a, b, the sign of Compare(a, b) is the sign of the byte-wise comparison of
\* Key(a) and Key(b).
KeyIdentity ==
    (out.done /\ pc = "done" /\ c.Strength # Identity)
        => Sign(out.xy) = Sign(bytesCompare(out.kx, out.ky))

\* C2: Compare is antisymmetric for every configuration, sign(Compare(x, y))
\* = -sign(Compare(y, x)), and Compare(x, x) = 0.
Antisymmetry ==
    (out.done /\ pc = "done")
        => /\ Sign(out.xy) = -Sign(out.yx)
           /\ (args[1] = args[2] => out.xy = 0)

AntisymmetryWitness ==
    /\ out.done /\ pc = "done"
    /\ args[1] # args[2]
    /\ c.Backwards /\ c.Strength = Secondary
    /\ out.xy = 1 /\ out.yx = -1 /\ out.levels = 1

\* C3: at Strength Identity Compare is transitive: Compare(x, y) <= 0 and
\* Compare(y, z) <= 0 imply Compare(x, z) <= 0.
TransitiveAtIdentity ==
    (out.done /\ pc = "done" /\ c.Strength = Identity)
        => ((out.xy <= 0 /\ out.yz <= 0) => out.xz <= 0)

TransitiveAtIdentityWitness ==
    /\ out.done /\ pc = "done" /\ c.Strength = Identity
    /\ c.Alternate = AltNonIgnorable
    /\ out.xy = -1 /\ out.yz = -1 /\ out.xz = -1
    /\ args[1] # <<>>

\* C4: at Strength Identity, when all weight levels compare equal Compare
\* and CompareString return the byte-wise comparison of the raw inputs, so
\* the result is 0 only for identical inputs.
IdentityFallback ==
    (out.done /\ pc = "done" /\ c.Strength = Identity)
        => /\ out.levels = 0 => out.xy = bytesCompare(args[1], args[2])
           /\ out.slevels = 0 => out.sxy = bytesCompare(args[1], args[2])
           /\ out.xy = 0 => args[1] = args[2]
           /\ out.sxy = 0 => args[1] = args[2]

IdentityFallbackWitness ==
    /\ out.done /\ pc = "done" /\ c.Strength = Identity
    /\ c.Alternate = AltNonIgnorable
    /\ out.levels = 0 /\ out.slevels = 0
    /\ args[1] # args[2]
    /\ out.xy = 1 /\ out.sxy = 1

\* C5: two canonically equivalent inputs (the same runes, the marks between
\* starters exchanged) give the same element sequence, and compare equal at
\* every strength up to Tertiary.
NormalisationEquivalence ==
    (out.done /\ pc = "done" /\ c.Strength <= Tertiary)
        => /\ out.cex = out.cey
           /\ out.xy = 0
           /\ out.yx = 0

NormalisationEquivalenceWitness ==
    /\ out.done /\ pc = "done" /\ c.Strength = Tertiary
    /\ c.Alternate = AltNonIgnorable
    /\ args[1] # args[2]
    /\ Len(args[1]) = 3
    /\ CCC(At(out.cex, 0)) = 0
    /\ out.cex = out.cey

\* C6: after any sequence of earlier calls, the result of Compare and
\* CompareString and the bytes returned by Key and KeyFromString are those
\* of the same call on a new collator with the same options: they depend on
\* the options and the arguments alone.
CallsIndependent ==
    /\ last.op = "Compare" => out.res = Compare(c, Fresh, last.a, last.b).res
    /\ last.op = "CompareString" => out.res = CompareString(c, Fresh, last.a, last.b).res
    /\ last.op = "Key" => out.ret = Key(c, <<>>, Fresh, last.a).ret
    /\ last.op = "KeyFromString" => out.ret = KeyFromString(c, <<>>, Fresh, last.a).ret

\* A third call, Key, on a collator whose iterators hold the elements of
\* earlier inputs, that returns a key into a Buffer holding nothing else.
CallsIndependentWitness ==
    /\ calls = 3
    /\ last.op = "Key" /\ last.a = <<rLowerA, rLowerB>>
    /\ Len(keys) = 1 /\ out.kn = 0
    /\ Len(iters[2].ce) > 0
    /\ Len(out.ret) > 0

\* C7: Key only appends. Every key returned since the last Reset still lies
\* unchanged in the Buffer at its offset, the keys follow one another from
\* offset 0, and the last one ends at the end of the Buffer.
KeysEnd(ks) == IF ks = <<>> THEN 0 ELSE ks[Len(ks)].off + Len(ks[Len(ks)].bytes)

KeyOnlyAppends ==
    /\ \A n \in 1..Len(keys) :
          /\ keys[n].off = KeysEnd(SubSeq(keys, 1, n - 1))
          /\ keys[n].off + Len(keys[n].bytes) <= Len(bufKey)
          /\ Slice(bufKey, keys[n].off, keys[n].off + Len(keys[n].bytes)) = keys[n].bytes
    /\ KeysEnd(keys) = Len(bufKey)

KeyOnlyAppendsWitness ==
    /\ Len(keys) >= 2
    /\ c.Alternate = AltShiftTrimmed /\ c.Strength = Quaternary
    /\ keys[1].bytes # keys[2].bytes
    /\ Len(keys[1].bytes) > 0 /\ Len(keys[2].bytes) > 0

\* C8: with Alternate Shifted, two inputs without a variable element compare
\* as they do under NonIgnorable.
ShiftedAsNonIgnorable ==
    (out.done /\ pc = "done" /\ c.Alternate = AltShifted
        /\ ~HasVariable(args[1]) /\ ~HasVariable(args[2]))
        => out.xy = Compare([c EXCEPT !.Alternate = AltNonIgnorable], Fresh,
                            args[1], args[2]).res

\* C9: with Alternate Blanked, x compares equal to x without its variables
\* and the primary ignorables that follow them.
BlankedIgnoresVariables ==
    (out.done /\ pc = "done" /\ c.Alternate = AltBlanked /\ c.Strength # Identity
        /\ args[2] = RemoveVariables(args[1], FALSE))
        => out.xy = 0

\* C10: after SetOptions with IgnoreDiacritics the Strength is Primary, and
\* after SetOptions with Numeric the field Numeric is set.
SetOptionsMapsFlags ==
    last.op = "SetOptions"
        => /\ HasOption(last.o, OptIgnoreDiacritics) => c.Strength = Primary
           /\ HasOption(last.o, OptNumeric) => c.Numeric

\* C11 as claimed: whenever Compare(x, y) is non-zero at Strength Primary,
\* Compare(x, y) at Strength Tertiary returns the same value, for every
\* setting of Alternate, Backwards and CaseLevel.
PrimaryDecisionKept ==
    (out.done /\ pc = "done") => (out.prim # 0 => out.tert = out.prim)

\* C11: when the primary level decides, which is every non-zero result at
\* Strength Primary with CaseLevel unset, Compare(x, y) returns that verdict
\* at Strength Primary and at Strength Tertiary.
PrimaryLevelDecisionKept ==
    (out.done /\ pc = "done")
        => /\ out.plevel # 0 => (out.prim = out.plevel /\ out.tert = out.plevel)
           /\ (~c.CaseLevel /\ out.prim # 0) => out.tert = out.prim

PrimaryLevelDecisionKeptWitness ==
    /\ out.done /\ pc = "done"
    /\ ~c.CaseLevel /\ c.Backwards /\ c.Alternate = AltBlanked
    /\ out.prim = -1 /\ out.tert = -1
    /\ Len(args[1]) = 2 /\ Len(args[2]) = 2 /\ args[1][1] = args[2][1]

\* C12: processWeights is idempotent: for every Alternate mode and every
\* element window, applying it to its own result changes nothing.
ProcessWeightsIdempotent ==
    (out.done /\ pc = "done") => out.w2 = out.w1

ProcessWeightsIdempotentWitness ==
    /\ out.done /\ pc = "done"
    /\ c.Alternate = AltShifted
    /\ Len(args[1]) = 3
    /\ out.w1 # args[1]
    /\ out.w1[1] = MakeQuaternary(WeigherTop) /\ out.w1[2] = Ignore /\ out.w1[3] = args[1][3]
    /\ PrimaryOf(args[1][3]) > WeigherTop

\* The element at position k of window ws is a variable, and it follows a
\* variable with nothing but variables and primary ignorables in between.
VariableAt(ws, k) == IsVariable(ws[k])
FollowsVariable(ws, k) ==
    \E j \in 1..(k - 1) :
        /\ VariableAt(ws, j)
        /\ \A m \in (j + 1)..(k - 1) : PrimaryOf(ws[m]) <= WeigherTop

\* C19: under AltShifted and AltShiftTrimmed processWeights replaces exactly
\* the variables by a quaternary-only element carrying their primary and
\* exactly the primary ignorables that follow a variable, with no
\* non-variable primary in between, by Ignore; every other element is left
\* as it was, and under AltNonIgnorable no element is changed.
ShiftedReplacesVariables ==
    (out.done /\ pc = "done")
        => /\ c.Alternate = AltNonIgnorable => out.w1 = args[1]
           /\ c.Alternate \in {AltShifted, AltShiftTrimmed} =>
                 /\ Len(out.w1) = Len(args[1])
                 /\ \A k \in 1..Len(args[1]) :
                       out.w1[k] = IF VariableAt(args[1], k)
                                   THEN MakeQuaternary(PrimaryOf(args[1][k]))
                                   ELSE IF PrimaryOf(args[1][k]) = 0
                                           /\ FollowsVariable(args[1], k)
                                   THEN Ignore
                                   ELSE args[1][k]

ShiftedReplacesVariablesWitness ==
    /\ out.done /\ pc = "done"
    /\ c.Alternate = AltShiftTrimmed
    /\ Len(args[1]) = 3
    /\ VariableAt(args[1], 1) /\ PrimaryOf(args[1][2]) > WeigherTop
    /\ PrimaryOf(args[1][3]) = 0 /\ args[1][3] # Ignore
    /\ out.w1[3] = args[1][3]
    /\ out.w1[1] = MakeQuaternary(WeigherTop)

\* C13: with a Weigher that emits an element and consumes a byte on every
\* call, each pass through the loop of next shortens the remaining input,
\* and the calls end: next returns false to Key and nextPrimary returns 0
\* to Compare.
IterationShortens ==
    (pc = "next" /\ ~done(iters[1]))
        => Len(Remaining(iters[1]')) < Len(Remaining(iters[1]))

NextTerminates == [][IterationShortens]_vars /\ <>(pc = "done")

NextTerminatesWitness ==
    /\ pc = "done" /\ last.op = "Compare"
    /\ Len(args[1]) >= 3
    /\ done(iters[1])
    /\ iters[1].pce = Len(iters[1].ce) /\ iters[1].nce = Len(iters[1].ce)
    /\ Len(iters[1].ce) > Len(args[1])

\* The steps leave iter(0) as getColElems does.
StepsAgreeWithNext ==
    (pc = "done" /\ last.op = "Key") => iters[1] = getColElems(NewIter, args[1])

\* The bytes of the sections of a key, element by element of the processed
\* window ws.
RECURSIVE Flat(_)
Flat(ss) == IF ss = <<>> THEN <<>> ELSE Head(ss) \o Flat(Tail(ss))
Reversed(ws) == [k \in 1..Len(ws) |-> ws[Len(ws) - k + 1]]
IsPrefix(a, b) == Len(a) <= Len(b) /\ SubSeq(b, 1, Len(a)) = a
Separator == <<0, 0>>

PrimaryBytes(ws) ==
    Flat([k \in 1..Len(ws) |->
        IF PrimaryOf(ws[k]) > 0 THEN appendPrimary(<<>>, PrimaryOf(ws[k])) ELSE <<>>])
SecondaryBytes(ws) ==
    Flat([k \in 1..Len(ws) |->
        IF SecondaryOf(ws[k]) > 0
        THEN <<Byte(SecondaryOf(ws[k]) \div 256), Byte(SecondaryOf(ws[k]))>> ELSE <<>>])
TertiaryBytes(ws) ==
    Flat([k \in 1..Len(ws) |->
        IF TertiaryOf(ws[k]) > 0 THEN <<Byte(TertiaryOf(ws[k]))>> ELSE <<>>])
QuaternaryBytes(ws) ==
    Flat([k \in 1..Len(ws) |->
        IF QuaternaryOf(ws[k]) = MaxQuaternary THEN <<255>>
        ELSE IF QuaternaryOf(ws[k]) > 0 THEN appendPrimary(<<>>, QuaternaryOf(ws[k]))
        ELSE <<>>])

SecondaryFollows(cc) == Secondary <= cc.Strength
TertiaryFollows(cc) == Tertiary <= cc.Strength \/ cc.CaseLevel
QuaternaryFollows(cc) ==
    Quaternary <= cc.Strength /\ cc.Alternate \in {AltShifted, AltShiftTrimmed}
SecondaryOrdered(cc, ws) ==
    IF cc.Backwards THEN SecondaryBytes(Reversed(ws)) ELSE SecondaryBytes(ws)

\* C14 as claimed: the key is the primary section, then for each of the
\* secondary, tertiary and quaternary sections that follows, and only for
\* those, the separator 0x00 0x00 and the section. (AltShiftTrimmed, which
\* cuts the key, is left to C18.)
SeparatorsAsClaimed ==
    (out.done /\ pc = "done" /\ c.Alternate # AltShiftTrimmed)
        => out.key = PrimaryBytes(out.w1)
              \o (IF SecondaryFollows(c)
                  THEN Separator \o SecondaryOrdered(c, out.w1) ELSE <<>>)
              \o (IF TertiaryFollows(c) THEN Separator \o TertiaryBytes(out.w1) ELSE <<>>)
              \o (IF QuaternaryFollows(c)
                  THEN Separator \o QuaternaryBytes(out.w1) ELSE <<>>)

\* The layout keyFromElems gives a key before AltShiftTrimmed cuts it, up to
\* the end of the tertiary section and in full.
LayoutToTertiary(cc, ws) ==
    PrimaryBytes(ws)
        \o (IF SecondaryFollows(cc) THEN Separator \o SecondaryOrdered(cc, ws)
            ELSE IF cc.CaseLevel THEN Separator ELSE <<>>)
        \o (IF TertiaryFollows(cc) THEN Separator \o TertiaryBytes(ws) ELSE <<>>)
Layout(cc, ws) ==
    LayoutToTertiary(cc, ws)
        \o (IF QuaternaryFollows(cc) THEN <<0>> \o QuaternaryBytes(ws) ELSE <<>>)

\* C14: 0x00 0x00 precedes the secondary and the tertiary section and the
\* single byte 0x00 the quaternary section. The secondary separator is
\* emitted exactly when Strength >= Secondary or CaseLevel is set (alone,
\* with no secondary weights, at Strength Primary), the tertiary one exactly
\* when Strength >= Tertiary or CaseLevel is set, the quaternary one exactly
\* when Strength >= Quaternary under AltShifted or AltShiftTrimmed; under
\* AltShiftTrimmed the key is this layout cut somewhere after the tertiary
\* section.
SeparatorsPrecedeSections ==
    (out.done /\ pc = "done")
        => /\ c.Alternate # AltShiftTrimmed => out.key = Layout(c, out.w1)
           /\ c.Alternate = AltShiftTrimmed =>
                 /\ IsPrefix(out.key, Layout(c, out.w1))
                 /\ IsPrefix(LayoutToTertiary(c, out.w1), out.key)

SeparatorsPrecedeSectionsWitness ==
    /\ out.done /\ pc = "done"
    /\ c.Strength = Primary /\ c.CaseLevel /\ c.Alternate = AltShifted
    /\ Len(args[1]) = 2
    /\ PrimaryOf(out.w1[1]) > 32767 /\ IsVariable(args[1][2])
    /\ out.key = <<128, 128, 1, 0, 0, 0, 0, 2>>

\* An element without a primary, secondary and tertiary weight, and one
\* without any weight.
ZeroToTertiary(e) == PrimaryOf(e) = 0 /\ SecondaryOf(e) = 0 /\ TertiaryOf(e) = 0
ZeroWeights(e) == ZeroToTertiary(e) /\ QuaternaryOf(e) = 0
WithoutZeroToTertiary(ws) == SelectSeq(ws, LAMBDA e : ~ZeroToTertiary(e))
WithoutZeroWeights(ws) == SelectSeq(ws, LAMBDA e : ~ZeroWeights(e))

\* C15 as claimed: for every configuration the key of the empty window is
\* empty, and the elements whose primary, secondary and tertiary are zero
\* add no byte to a key.
EmptyKeyAsClaimed ==
    (out.done /\ pc = "done")
        => /\ args[1] = <<>> => out.key = <<>>
           /\ out.key = keyFromElems(c, <<>>, WithoutZeroToTertiary(out.w1))

\* The separators of the levels a configuration writes, as the key of the
\* empty window holds them.
SeparatorsAlone(cc) ==
    (IF Secondary <= cc.Strength \/ cc.CaseLevel THEN <<0, 0>> ELSE <<>>)
        \o (IF Tertiary <= cc.Strength \/ cc.CaseLevel THEN <<0, 0>> ELSE <<>>)
        \o (IF Quaternary <= cc.Strength /\ cc.Alternate = AltShifted THEN <<0>> ELSE <<>>)

\* C15: the key of the empty input holds the separators of the levels and
\* nothing else, so it is empty exactly at Strength Primary without
\* CaseLevel; an element whose four weights are all zero adds no byte to a
\* key.
EmptyKeyIsSeparators ==
    (out.done /\ pc = "done")
        => /\ args[1] = <<>> => out.key = SeparatorsAlone(c)
           /\ (args[1] = <<>> /\ c.Strength = Primary /\ ~c.CaseLevel) => out.key = <<>>
           /\ out.key = keyFromElems(c, <<>>, WithoutZeroWeights(out.w1))

EmptyKeyIsSeparatorsWitness ==
    /\ out.done /\ pc = "done"
    /\ c.Strength = Quaternary /\ c.Alternate = AltShiftTrimmed
    /\ Len(out.w1) = 3 /\ out.w1[2] = Ignore /\ args[1][2] # Ignore
    /\ ~ZeroWeights(out.w1[1]) /\ ~ZeroWeights(out.w1[3])
    /\ Len(out.key) > 8

\* C16: appendPrimary writes a primary p, 0 < p < 2^23, big-endian in two
\* bytes when p <= 0x7FFF and in three bytes, the first 0x80 | (p >> 16),
\* otherwise; for p < q the bytes of p compare below those of q and neither
\* encoding is a prefix of the other.
PrimaryEncodingOrdered ==
    (out.done /\ pc = "done")
        => /\ args[1] <= 32767 => out.ep = <<args[1] \div 256, args[1] % 256>>
           /\ args[1] > 32767 =>
                 out.ep = <<128 + (args[1] \div 65536), (args[1] \div 256) % 256,
                            args[1] % 256>>
           /\ args[1] < args[2] =>
                 /\ bytesCompare(out.ep, out.eq) = -1
                 /\ ~IsPrefix(out.ep, out.eq)
                 /\ ~IsPrefix(out.eq, out.ep)

PrimaryEncodingOrderedWitness ==
    /\ out.done /\ pc = "done"
    /\ args[1] = 32767 /\ args[2] = 32768
    /\ out.ep = <<127, 255>> /\ out.eq = <<128, 128, 0>>

\* C17: in the quaternary section MaxQuaternary is the one byte 0xFF, and
\* the first byte of a weight of up to 23 bits written by appendPrimary is
\* below 0xFF, so that the byte 0xFF compares above the weight.
MaxQuaternaryAboveAll ==
    (out.done /\ pc = "done")
        => /\ out.quat = <<255>> \o out.ep
           /\ out.ep[1] < 255
           /\ bytesCompare(<<255>>, out.ep) = 1

\* The non-zero quaternary weights of a window, and the length of the run
\* of MaxQuaternary at their end.
QuaternaryWeights(ws) ==
    SelectSeq([k \in 1..Len(ws) |-> QuaternaryOf(ws[k])], LAMBDA w : w # 0)
RECURSIVE TrailingMax(_)
TrailingMax(qs) ==
    IF qs # <<>> /\ qs[Len(qs)] = MaxQuaternary
    THEN 1 + TrailingMax(SubSeq(qs, 1, Len(qs) - 1))
    ELSE 0
TrimmedBytes(ws) ==
    TrailingMax(QuaternaryWeights(ws))
        + (IF TrailingMax(QuaternaryWeights(ws)) = Len(QuaternaryWeights(ws)) THEN 1 ELSE 0)

\* C18: with AltShiftTrimmed and Strength >= Quaternary the key is the key
\* under AltShifted without the bytes 0xFF of the run of MaxQuaternary that
\* ends the quaternary section, and without the quaternary separator too
\* when the section holds no other weight; a byte 0xFF of a weight written
\* by appendPrimary stays.
ShiftTrimmedCutsTrailingMax ==
    (out.done /\ pc = "done" /\ c.Alternate = AltShiftTrimmed /\ c.Strength >= Quaternary)
        => out.key = SubSeq(out.keyShifted, 1, Len(out.keyShifted) - TrimmedBytes(out.w1))

ShiftTrimmedCutsTrailingMaxWitness ==
    /\ out.done /\ pc = "done" /\ c.Alternate = AltShiftTrimmed /\ c.Strength = Quaternary
    /\ Len(out.w1) = 3
    /\ QuaternaryOf(out.w1[1]) = MaxQuaternary
    /\ out.w1[2] = MakeQuaternary(255)
    /\ QuaternaryOf(out.w1[3]) = MaxQuaternary
    /\ Len(out.key) = Len(out.keyShifted) - 1
    /\ out.key[Len(out.key)] = 255

\* The non-zero secondary weights of a window, in window order.
SecondaryWeights(ws) ==
    SelectSeq([k \in 1..Len(ws) |-> SecondaryOf(ws[k])], LAMBDA w : w # 0)

\* C20: prevSecondary reads inside the buffer only and, called from pce = 0
\* until it returns 0, returns the non-zero secondary weights of the window
\* from its tail to its head, the reverse of what nextSecondary returns,
\* whatever elements have no secondary weight; with Backwards the key holds
\* the secondary weights in that order.
ReverseSecondaryWalk ==
    (out.done /\ pc = "done")
        => /\ out.prevReads \subseteq 0..(Len(out.w1) - 1)
           /\ out.prev = Reversed(SecondaryWeights(out.w1))
           /\ out.prev = Reversed(out.next)
           /\ (c.Backwards /\ Secondary <= c.Strength) =>
                 SubSeq(out.key, Len(PrimaryBytes(out.w1)) + 3,
                        Len(PrimaryBytes(out.w1)) + 2 + 2 * Len(out.prev))
                    = Flat([k \in 1..Len(out.prev) |->
                               <<Byte(out.prev[k] \div 256), Byte(out.prev[k])>>])

ReverseSecondaryWalkWitness ==
    /\ out.done /\ pc = "done"
    /\ c.Backwards /\ c.Strength = Secondary /\ c.Alternate = AltNonIgnorable
    /\ Len(out.w1) = 3
    /\ SecondaryOf(out.w1[2]) = 0
    /\ out.prev = <<33, 32>> /\ out.next = <<32, 33>>
    /\ out.prevReads = {0, 1, 2}

\* C24: in every state of an iterator 0 <= nce <= len(ce); while one input
\* is read nce never decreases and the released elements ce[0 .. nce) stay
\* as they are, whatever next and doNorm do afterwards; the cursor pce of
\* nextPrimary stays within them.
ReleasedPrefixKept ==
    /\ iters[1]'.nce >= iters[1].nce
    /\ SubSeq(iters[1]'.ce, 1, iters[1].nce) = SubSeq(iters[1].ce, 1, iters[1].nce)
    /\ iters[1]'.pce >= iters[1].pce

ReleasedInRange ==
    /\ 0 <= iters[1].nce /\ iters[1].nce <= Len(iters[1].ce)
    /\ 0 <= iters[1].pce /\ iters[1].pce <= iters[1].nce

ReleasedPrefixStable == [](ReleasedInRange) /\ [][ReleasedPrefixKept]_vars

\* A letter was released, a mark of class 230 followed it, and a mark of
\* class 202 has been moved in front of that mark, behind the letter.
ReleasedPrefixStableWitness ==
    /\ pc = "next" /\ last.op = "Compare"
    /\ iters[1].nce = 1 /\ iters[1].pce = 1
    /\ Len(iters[1].ce) = 3
    /\ CCC(iters[1].ce[1]) = 0 /\ CCC(iters[1].ce[2]) = 202 /\ CCC(iters[1].ce[3]) = 230

\* The pass of next that is about to run ends in the reordering of doNorm:
\* the appended block ends in a mark, does not begin with a starter, its CCC
\* is below prevCCC and at most maxCombiningCharacters elements lie between
\* the last starter and the block.
NormCaseOf(j, p0, end, ccc) ==
    /\ ccc # 0
    /\ ~(p0 < end /\ CCC(At(j.ce, p0)) = 0)
    /\ ccc < j.prevCCC
    /\ p0 - j.pStarter <= maxCombiningCharacters
NormCase(j, p0) == NormCaseOf(j, p0, Len(j.ce) - 1, CCC(At(j.ce, Len(j.ce) - 1)))
Appended(i) == tailAppended(appendNext(i))
ReorderCase == pc = "next" /\ ~done(iters[1]) /\ NormCase(Appended(iters[1]), Len(iters[1].ce))

\* The position the walk of the claim ends at: from p, back while
\* p > pStarter and ccc < buf[p-1].ccc.
RECURSIVE WalkBack(_, _, _, _)
WalkBack(buf, pS, p, ccc) ==
    IF p > pS /\ ccc < CCC(At(buf, p - 1)) THEN WalkBack(buf, pS, p - 1, ccc) ELSE p

\* Index from which the marks that follow the last starter are counted.
AfterStarter(buf, pS) == IF CCC(At(buf, pS)) = 0 THEN pS + 1 ELSE pS

NonDecreasingFrom(buf, q0) ==
    \A q \in q0..(Len(buf) - 2) : CCC(At(buf, q)) <= CCC(At(buf, q + 1))

\* old is the buffer with the block appended at k, new the buffer after the
\* pass, p the position of the walk
ReorderedAt(old, new, k, pS, ccc, p) ==
    /\ Len(new) = Len(old)
    /\ new = Slice(old, 0, p) \o Slice(old, k, Len(old)) \o Slice(old, p, k)
    /\ \A q \in p..(k - 1) : CCC(At(old, q)) > ccc
    /\ NonDecreasingFrom(new, AfterStarter(new, pS))
Reordered(j, new, k) ==
    ReorderedAt(j.ce, new, k, j.pStarter, CCC(At(j.ce, Len(j.ce) - 1)),
                WalkBack(j.ce, j.pStarter, k, CCC(At(j.ce, Len(j.ce) - 1))))

\* C21: when the block next has appended has a CCC below prevCCC and at most
\* 30 elements lie between the last starter and the block, the pass moves
\* the block to the position found by walking back while p > pStarter and
\* ccc < ce[p-1].CCC: the buffer keeps its length, the elements in front of
\* that position stay, the displaced elements follow the block in their old
\* order, every displaced element has a CCC above that of the block (equal
\* CCCs keep input order) and the CCCs after the last starter are
\* non-decreasing.
DoNormReorders ==
    [][ReorderCase => Reordered(Appended(iters[1]), iters[1]'.ce, Len(iters[1].ce))]_vars

\* acute (230), below (220), hook (220, 220), cedilla (202) have been read:
\* the cedilla leads, the marks of class 220 follow in input order, the acute
\* is last.
DoNormReordersWitness ==
    /\ args = << <<rAcute, rBelow, rHook, rCedilla>> >>
    /\ iters[1].ce = WeigherTable(rCedilla) \o WeigherTable(rBelow)
                        \o WeigherTable(rHook) \o WeigherTable(rAcute)

\* The pass of next that is about to run ends in the guard of doNorm: as
\* NormCaseOf, with more than maxCombiningCharacters elements between the
\* last starter and the block.
GuardCaseOf(j, p0, end, ccc) ==
    /\ ccc # 0
    /\ ~(p0 < end /\ CCC(At(j.ce, p0)) = 0)
    /\ ccc < j.prevCCC
    /\ p0 - j.pStarter > maxCombiningCharacters
GuardCaseAt(j, p0) == GuardCaseOf(j, p0, Len(j.ce) - 1, CCC(At(j.ce, Len(j.ce) - 1)))
GuardCase == pc = "next" /\ ~done(iters[1]) /\ GuardCaseAt(Appended(iters[1]), Len(iters[1].ce))

\* The guard reorders nothing and makes the newest element the starter.
Promoted(j, i) ==
    /\ i.ce = j.ce
    /\ i.pStarter = Len(j.ce) - 1
    /\ i.prevCCC = CCC(At(j.ce, Len(j.ce) - 1))
GuardPromotes == [][GuardCase => Promoted(Appended(iters[1]), iters[1]')]_vars

\* The elements of the input read so far are in the buffer, each once.
MarkElems == UNION {{WeigherTable(r)[m] : m \in 1..Len(WeigherTable(r))} : r \in TailRunes}
Count(s, e) == Cardinality({q \in 1..Len(s) : s[q] = e})
Produced(x, e) ==
    Cardinality({km \in (1..Len(x)) \X (1..2) :
        km[2] <= Len(WeigherTable(x[km[1]])) /\ WeigherTable(x[km[1]])[km[2]] = e})
Consumed(i) == SubSeq(args[1], 1, Len(args[1]) - Len(Remaining(i)))
ElementsKept(ce, x) ==
    /\ \A q \in 1..Len(ce) : ce[q] \in MarkElems
    /\ \A e \in MarkElems : Count(ce, e) = Produced(x, e)
EveryElementOnce == ElementsKept(iters[1].ce, Consumed(iters[1]))

\* pStarter is at an element the guard promoted: it is not the first
\* element and its CCC is not 0 (next itself sets pStarter at elements of
\* CCC 0 only).
AtPromoted(i) == i.pStarter > 0 /\ CCC(At(i.ce, i.pStarter)) # 0
\* No pass of next puts an element in front of the promoted one.
PromotedStaysInFront ==
    [][AtPromoted(iters[1]) =>
          SubSeq(iters[1]'.ce, 1, iters[1].pStarter + 1)
              = SubSeq(iters[1].ce, 1, iters[1].pStarter + 1)]_vars

\* What is left to do of the call: the input to read, the elements the scan
\* of nextPrimary has not passed, the last release of next, the position in
\* the code.
PcRank == CASE pc = "primary" -> 2 [] pc = "next" -> 1 [] OTHER -> 0
VariantOf(i) ==
    1000 * Len(Remaining(i)) + 10 * (Len(i.ce) - i.pce)
        + (IF Len(i.ce) # i.nce THEN 3 ELSE 0)
Variant == VariantOf(iters[1]) + PcRank
\* Every pass takes the call nearer to its return, and the call is in the
\* loop of next, in the scan of nextPrimary or has returned.
MarksTerminate ==
    /\ [][Variant' < Variant]_vars
    /\ [](Variant >= 0 /\ pc \in {"next", "primary", "done"})

\* C22: when more than 30 elements lie between the last starter and the
\* appended block, doNorm reorders nothing and makes the newest element the
\* starter (pStarter its index, prevCCC its CCC); on runs of MaxRun and more
\* marks the iterator terminates and keeps every element exactly once; and
\* no later mark is moved in front of the promoted element.
PromotionAsClaimed ==
    /\ GuardPromotes
    /\ [](EveryElementOnce)
    /\ MarksTerminate
    /\ PromotedStaysInFront

\* The parts of C22 that do not speak of the later marks.
PromotionWithoutLaterMarks ==
    /\ GuardPromotes
    /\ [](EveryElementOnce)
    /\ MarksTerminate

\* A mark of class 220 was promoted after 31 acute accents and a cedilla
\* (202) read after it stands in front of it.
LaterMarkInFront ==
    /\ Len(iters[1].ce) = maxCombiningCharacters + 3
    /\ iters[1].pStarter = maxCombiningCharacters + 1
    /\ CCC(At(iters[1].ce, maxCombiningCharacters + 1)) = 202
    /\ CCC(At(iters[1].ce, maxCombiningCharacters + 2)) = 220

\* The iterators the call that has just entered has set its input on.
EnteredIters == IF last.op \in {"Compare", "CompareString"} THEN {1, 2} ELSE {1}
Rewound(i) == Len(i.ce) = 0 /\ i.nce = 0 /\ i.prevCCC = 0 /\ i.pStarter = 0
ZeroPce(it) == <<[it[1] EXCEPT !.pce = 0], [it[2] EXCEPT !.pce = 0]>>

\* C23 as claimed: at the entry of every Compare, CompareString, Key and
\* KeyFromString, right after the input is set on an iterator and after any
\* earlier calls, len(ce) = 0, nce = 0 and pce = 0, with prevCCC = 0 and
\* pStarter = 0.
EntryFullyRewound ==
    pc = "entered" =>
        \A k \in EnteredIters : Rewound(iters[k]) /\ iters[k].pce = 0

\* C23: at the entry of every Compare, CompareString, Key and KeyFromString,
\* right after the input is set on an iterator and after any earlier calls,
\* len(ce) = 0 and nce = 0, with prevCCC = 0 and pStarter = 0; pce is what
\* the earlier call left, and the call returns what it returns with pce = 0
\* (compareLevel sets pce = 0 before it walks a level, Key does not read it).
EntryRewound ==
    pc = "entered" =>
        /\ \A k \in EnteredIters : Rewound(iters[k])
        /\ last.op \in {"Compare", "CompareString"} =>
              RestOfCompare(c, iters, last.a, last.b).res
                  = RestOfCompare(c, ZeroPce(iters), last.a, last.b).res
        /\ last.op \in {"Key", "KeyFromString"} =>
              RestOfKey(c, bufKey, iters).ret = RestOfKey(c, bufKey, ZeroPce(iters)).ret

\* A Compare has walked a-acute and below; Key has set its input on iter(0),
\* whose pce is still where the walk of the Compare ended.
EntryRewoundWitness ==
    /\ pc = "entered" /\ calls = 1 /\ last.op = "Key"
    /\ last.a = <<rLowerA, rLowerB>>
    /\ iters[1].pce = 3

====
